---- MODULE Spec2Model ----
(***************************************************************************)
(* A model of the OSINT framework (src/src/osint): the construction of     *)
(* OSINTFramework from a configuration, the scan loop that runs the loaded *)
(* modules and hands their results to ResultsManager.save_results, and the *)
(* dark-web analysis DarkWebModule._analyze_findings.                      *)
(*                                                                         *)
(* Spec          the framework: construction, scan, save                   *)
(* AnalysisSpec  calls of DarkWebModule._analyze_findings on bounded data  *)
(* TrendSpec     calls of DarkWebModule._calculate_exposure_trend          *)
(* TimelineSpec  two calls of _analyze_findings on the same dated data     *)
(* RiskSpec      calls of _analyze_findings on data with further fields    *)
(* RecSpec       calls of DarkWebModule._generate_recommendations          *)
(* RunSpec       calls of run of the modules of src/src/osint/modules      *)
(* CollectorSpec calls of the dark-web collectors of breaches and pastes   *)
(* ConfigSpec    constructions of ConfigManager over configuration files   *)
(* ScansSpec     scans over time: their targets and their report files     *)
(***************************************************************************)
EXTENDS Integers, Sequences, FiniteSets, TLC

VARIABLES
    config,      \* config['modules'] as loaded: entries in declaration order
    pc,          \* "new" | "ready" | "scanning" | "done" | "aborted"
    abort_error, \* the exception that ended the run, "None" while there is none
    modules,     \* framework.modules: sequence of module names
    target,      \* the ScanTarget of the scan (one object, shared by reference)
    results,     \* the local list `results` of scan
    idx,         \* position of the for loop of scan in framework.modules
    inflight,    \* the module whose run is being awaited, "none" otherwise
    elapsed,     \* seconds since the awaited run was started
    started,     \* history: modules whose run has been started
    failed,      \* history: modules whose run ended in a failure
    saved,       \* what save_results was called with
    a_in,        \* arguments of the last call of _analyze_findings
    analysis,    \* the mapping returned by that call
    analysis2,   \* the mapping returned by a second call on the same arguments
    t_in,        \* the timeline given to _calculate_exposure_trend, by month
    t_out,       \* the trend that call returned
    r_in,        \* the data sources given to _generate_recommendations
    r_out,       \* the list that call returned
    m_in,        \* a call of a module's run: the module and what fails in it
    m_out,       \* the ScanResult that call returned
    c_in,        \* a call of a dark-web collector: the outcomes of its lookups
    c_out,       \* the mapping that call returned
    disk,        \* the configuration files: path -> file
    cms,         \* the ConfigManager objects constructed, in order
    clock,       \* the wall clock, in ticks since framework.py was imported
    scans,       \* the scans started, each with its target and its report
    reports      \* the results directory: file name -> the scan it reports

fvars == <<config, pc, abort_error, modules, target, results, idx, inflight,
           elapsed, started, failed, saved>>
pvars == <<r_in, r_out, m_in, m_out>>
xvars == <<c_in, c_out, disk, cms, clock, scans, reports>>
avars == <<a_in, analysis, analysis2, t_in, t_out, r_in, r_out, m_in, m_out,
           c_in, c_out, disk, cms, clock, scans, reports>>
vars == <<config, pc, abort_error, modules, target, results, idx, inflight,
          elapsed, started, failed, saved, a_in, analysis, analysis2, t_in,
          t_out, r_in, r_out, m_in, m_out, c_in, c_out, disk, cms, clock,
          scans, reports>>

-----------------------------------------------------------------------------
(* Bounds and program constants                                            *)

\* seconds the model's clock advances in one step
TickSeconds == 10

\* scan_options.timeout of the default configuration
Timeout == 30

\* longest list in a data mapping given to _analyze_findings
MaxItems == 5

\* most dated events in the data of a call checked for its risk score
MaxEvents == 1

\* most dated events in the data of a call checked for its timeline
MaxTimelineEvents == 3

\* longest list of a field the risk score does not read
MaxOtherItems == 1

\* ticks of the model's wall clock in one second
TicksPerSecond == 2

\* last tick of the wall clock
MaxClock == 4

\* most scans started
MaxScans == 2

\* most ConfigManager objects constructed
MaxManagers == 2

\* most items one lookup of a collector finds
MaxFound == 1

\* most data sources given to _generate_recommendations
MaxSources == 2

\* most month buckets of a timeline given to _calculate_exposure_trend
MaxMonths == 5

\* most events in one month bucket of such a timeline
MaxPerMonth == 5

-----------------------------------------------------------------------------
(* Configuration                                                           *)

\* the four module classes of framework.py, in the order __init__ tests them
Registered == <<"passive_recon", "active_recon", "social_media", "dark_web">>

RegisteredNames == {Registered[i] : i \in 1..Len(Registered)}

\* a name a configuration file can declare for which no class exists
UnknownName == "custom_probe"

\* the sequences over S without repetition
SeqsNoDup(S) ==
    UNION {{f \in [1..n -> S] : \A i, j \in 1..n : i # j => f[i] # f[j]} :
           n \in 0..Cardinality(S)}

\* a modules mapping: named flags, in the order the file declares them
EntriesOver(names) ==
    {[i \in 1..Len(names) |-> [name |-> names[i], enabled |-> fl[i]]] :
        fl \in [1..Len(names) -> BOOLEAN]}

KnownConfigs == UNION {EntriesOver(d) : d \in SeqsNoDup(RegisteredNames)}

Configs ==
    KnownConfigs \cup
    {Append(c, [name |-> UnknownName, enabled |-> b]) :
        c \in KnownConfigs, b \in BOOLEAN}

Declared(cfg) == {cfg[i].name : i \in 1..Len(cfg)}

\* config['modules'][name] for a declared name
Flag(cfg, name) ==
    LET i == CHOOSE k \in 1..Len(cfg) : cfg[k].name = name IN cfg[i].enabled

EnabledNames(cfg) == {cfg[i].name : i \in {k \in 1..Len(cfg) : cfg[k].enabled}}

\* config['modules'][name] raises KeyError for a name the mapping lacks
LookupRaises(cfg) == \E n \in RegisteredNames : n \notin Declared(cfg)

IfEnabled(cfg, name) == IF Flag(cfg, name) THEN <<name>> ELSE <<>>

\* a loader that walks the modules mapping instead: the enabled registered
\* entries in the order the configuration lists them
LoadModulesDeclared(cfg) ==
    LET pick(e) == e.enabled /\ e.name \in RegisteredNames
        sel == SelectSeq(cfg, pick)
    IN [i \in 1..Len(sel) |-> sel[i].name]

\* the four `if ...: self.modules.append(...)` of __init__
LoadModules(cfg) ==
    IfEnabled(cfg, "passive_recon") \o IfEnabled(cfg, "active_recon") \o
    IfEnabled(cfg, "social_media") \o IfEnabled(cfg, "dark_web")

-----------------------------------------------------------------------------
(* Targets and results                                                     *)

Domains == {"example.com"}

ResolvedIP == "93.184.216.34"

\* ScanTarget(domain=domain): ip_addresses and subdomains default to None
NewTarget(d) == [domain |-> d, ip_addresses |-> <<>>, subdomains |-> <<>>]

Messages == {"network down", "no such attribute"}

\* the keys of the data mapping a module's run builds when nothing raises
ModuleData(m) ==
    CASE m = "passive_recon" -> {"whois", "dns_records", "certificate_info"}
      [] m = "active_recon"  -> {"open_ports", "vulnerabilities", "technologies"}
      [] m = "social_media"  -> {"profiles", "mentions", "related_accounts"}
      [] m = "dark_web"      -> {"leaks", "mentions", "related_data"}

\* ScanResult(target=target, module_name=..., data=data): status and error
\* take their defaults. The target field is a reference to the variable target.
SuccessResult(m) ==
    [module_name |-> m, status |-> "success", data |-> ModuleData(m),
     error |-> "None"]

\* the result a handler builds that keeps the partly built data
ErrorResultKeepsData(m, msg) ==
    [module_name |-> m, status |-> "error", data |-> ModuleData(m),
     error |-> msg]

\* the except branch of run: data={}, status="error", error=str(e)
ErrorResult(m, msg) ==
    [module_name |-> m, status |-> "error", data |-> {}, error |-> msg]

\* a loop that keeps only the results of the runs that succeeded
AppendUnlessError(rs, r) == IF r.status = "error" THEN rs ELSE Append(rs, r)

\* results.append(result)
AppendResult(rs, r) == Append(rs, r)

NoSave == [called |-> FALSE, results |-> <<>>, domain |-> "None"]

NoAnalysis == [called |-> FALSE]

NoCall == [called |-> FALSE]

\* no call of _calculate_exposure_trend has been made
TrendIdle == t_in = NoCall /\ t_out = NoCall

\* no call of _analyze_findings has been made
AnalysisIdle ==
    a_in = NoAnalysis /\ analysis = NoAnalysis /\ analysis2 = NoAnalysis

\* no call of a method of DarkWebModule has been made
\* no call of _generate_recommendations and none of a module's run
OtherCallsIdle ==
    r_in = NoCall /\ r_out = NoCall /\ m_in = NoCall /\ m_out = NoCall

\* no call of a collector has been made
CollectorIdle == c_in = NoCall /\ c_out = NoCall

\* no configuration file is looked at and no ConfigManager exists
ConfigIdle == disk = <<>> /\ cms = <<>>

\* no scan has been started and no report written
ScansIdle == clock = 0 /\ scans = <<>> /\ reports = <<>>

RestIdle == CollectorIdle /\ ConfigIdle /\ ScansIdle

AInit == AnalysisIdle /\ TrendIdle /\ OtherCallsIdle /\ RestIdle

\* no framework has been constructed
FrameworkIdle ==
    /\ config = <<>>
    /\ pc = "new"
    /\ abort_error = "None"
    /\ modules = <<>>
    /\ target = NewTarget("None")
    /\ results = <<>>
    /\ idx = 0
    /\ inflight = "none"
    /\ elapsed = 0
    /\ started = {}
    /\ failed = {}
    /\ saved = NoSave

-----------------------------------------------------------------------------
(* The framework                                                           *)

FInit ==
    /\ config \in Configs
    /\ pc = "new"
    /\ abort_error = "None"
    /\ modules = <<>>
    /\ target = NewTarget("None")
    /\ results = <<>>
    /\ idx = 0
    /\ inflight = "none"
    /\ elapsed = 0
    /\ started = {}
    /\ failed = {}
    /\ saved = NoSave

\* OSINTFramework.__init__: a lookup of a missing key raises KeyError and no
\* framework object exists; otherwise the module list is built
Construct ==
    /\ pc = "new"
    /\ IF LookupRaises(config)
       THEN /\ pc' = "aborted"
            /\ abort_error' = "KeyError"
            /\ UNCHANGED modules
       ELSE /\ pc' = "ready"
            /\ modules' = LoadModules(config)
            /\ UNCHANGED abort_error
    /\ UNCHANGED <<config, target, results, idx, inflight, elapsed, started,
                   failed, saved>>
    /\ UNCHANGED avars

\* scan, up to the loop: target = ScanTarget(domain=domain); results = []
ScanStart ==
    /\ pc = "ready"
    /\ \E d \in Domains : target' = NewTarget(d)
    /\ results' = <<>>
    /\ idx' = 1
    /\ pc' = "scanning"
    /\ UNCHANGED <<config, abort_error, modules, inflight, elapsed, started,
                   failed, saved>>
    /\ UNCHANGED avars

\* the loop reaches `await module.run(target)` for the next module
Dispatch ==
    /\ pc = "scanning"
    /\ inflight = "none"
    /\ idx <= Len(modules)
    /\ inflight' = modules[idx]
    /\ elapsed' = 0
    /\ started' = started \cup {modules[idx]}
    /\ UNCHANGED <<config, pc, abort_error, modules, target, results, idx,
                   failed, saved>>
    /\ UNCHANGED avars

\* time passes while the run is awaited; scan sets no deadline
Tick ==
    /\ inflight # "none"
    /\ elapsed <= Timeout
    /\ elapsed' = elapsed + TickSeconds
    /\ UNCHANGED <<config, pc, abort_error, modules, target, results, idx,
                   inflight, started, failed, saved>>
    /\ UNCHANGED avars

\* a resolution that replaces the addresses the target holds
ResolveAlways(t) == [t EXCEPT !.ip_addresses = <<ResolvedIP>>]

\* the target after the active module resolved the domain (it does so only
\* while ip_addresses is empty)
Resolve(t) ==
    IF t.ip_addresses = <<>> THEN [t EXCEPT !.ip_addresses = <<ResolvedIP>>]
    ELSE t

\* run returns its success result
RunReturns ==
    /\ inflight # "none"
    /\ results' = AppendResult(results, SuccessResult(inflight))
    /\ target' = IF inflight = "active_recon" THEN Resolve(target) ELSE target
    /\ idx' = idx + 1
    /\ inflight' = "none"
    /\ elapsed' = 0
    /\ UNCHANGED <<config, pc, abort_error, modules, started, failed, saved>>
    /\ UNCHANGED avars

\* the body of run raises an Exception: the except branch returns an error
\* result. The active module raises either in the resolution or after it.
RunRaises ==
    /\ inflight # "none"
    /\ \E msg \in Messages :
          results' = AppendResult(results, ErrorResult(inflight, msg))
    /\ \E resolved \in BOOLEAN :
          target' = IF inflight = "active_recon" /\ resolved
                    THEN Resolve(target) ELSE target
    /\ failed' = failed \cup {inflight}
    /\ idx' = idx + 1
    /\ inflight' = "none"
    /\ elapsed' = 0
    /\ UNCHANGED <<config, pc, abort_error, modules, started, saved>>
    /\ UNCHANGED avars

\* the awaited run is cancelled: asyncio.CancelledError is a BaseException,
\* `except Exception` does not catch it and it leaves scan
RunCancelled ==
    /\ inflight # "none"
    /\ failed' = failed \cup {inflight}
    /\ pc' = "aborted"
    /\ abort_error' = "CancelledError"
    /\ inflight' = "none"
    /\ UNCHANGED <<config, modules, target, results, idx, elapsed, started,
                   saved>>
    /\ UNCHANGED avars

\* the for loop of scan has started its second round
LoopPastFirst(i, mods) == i > 1

\* the for loop of scan is exhausted: every module of self.modules was awaited
LoopDone(i, mods) == i > Len(mods)

\* after the loop: return self.results_manager.save_results(results, target)
SaveResults ==
    /\ pc = "scanning"
    /\ inflight = "none"
    /\ LoopDone(idx, modules)
    /\ saved' = [called |-> TRUE, results |-> results, domain |-> target.domain]
    /\ pc' = "done"
    /\ UNCHANGED <<config, abort_error, modules, target, results, idx,
                   inflight, elapsed, started, failed>>
    /\ UNCHANGED avars

FNext ==
    \/ Construct
    \/ ScanStart
    \/ Dispatch
    \/ Tick
    \/ RunReturns
    \/ RunRaises
    \/ RunCancelled
    \/ SaveResults

Init == FInit /\ AInit

Next == FNext

Spec == Init /\ [][Next]_vars

-----------------------------------------------------------------------------
(* Properties of the framework                                             *)

Constructed == pc \in {"ready", "scanning", "done"}

NamesOf(rs) == {rs[i].module_name : i \in 1..Len(rs)}

\* position of a registered name in the order __init__ tests the flags
RegPos(n) == CHOOSE k \in 1..Len(Registered) : Registered[k] = n

\* position of a declared name in the configuration's modules mapping
DeclPos(cfg, n) == CHOOSE k \in 1..Len(cfg) : cfg[k].name = n

\* C1: whenever scan calls save_results, the list it passes has exactly one
\* result per enabled module (|S| entries, module_name unique, none missing)
\* and the results are in the order of framework.modules.
C1_SavedOnePerEnabled ==
    saved.called =>
        /\ Len(saved.results) = Cardinality(EnabledNames(config) \cap RegisteredNames)
        /\ NamesOf(saved.results) = EnabledNames(config) \cap RegisteredNames
        /\ Len(saved.results) = Len(modules)
        /\ \A i \in 1..Len(saved.results) :
              saved.results[i].module_name = modules[i]
        /\ \A i, j \in 1..Len(saved.results) :
              i # j => saved.results[i].module_name # saved.results[j].module_name

\* C1 witness: save_results is called with the results of all four modules,
\* failed and successful runs among them.
C1_Witness ==
    /\ saved.called
    /\ Len(saved.results) = 4
    /\ \E i, j \in 1..4 :
          saved.results[i].status = "error" /\ saved.results[j].status = "success"

\* C2: a module whose run failed (raised or was cancelled) has an error result
\* carrying the failure message, only failed modules have error results, and
\* the scan is not aborted by the failure.
C2_FailureIsolatedPerModule ==
    /\ \A m \in failed :
          \E i \in 1..Len(results) :
              /\ results[i].module_name = m
              /\ results[i].status = "error"
              /\ results[i].error \in Messages
    /\ \A i \in 1..Len(results) :
          results[i].status = "error" => results[i].module_name \in failed
    /\ (started # {} => pc # "aborted")

\* C3: the run is aborted only by a configuration error, and then before any
\* module has been run.
C3_OnlyConfigErrorAborts ==
    pc = "aborted" => (abort_error = "KeyError" /\ started = {})

\* C4: no run stays in flight past its deadline: at the deadline it is turned
\* into a timeout error result.
C4_DeadlineEnforced ==
    inflight # "none" => elapsed <= Timeout

\* C5: no module's start waits for another module's completion: once any run
\* has completed, every enabled module has been started.
C5_AllStartedBeforeAnyCompletes ==
    results # <<>> => started = {modules[i] : i \in 1..Len(modules)}

EnvelopeOK(r) ==
    /\ r.status \in {"success", "error"}
    /\ (r.status = "error" => (r.data = {} /\ r.error \in Messages))
    /\ (r.status = "success" => r.error = "None")

\* C6: every ScanResult a run created has status success or error; an error
\* result has the empty mapping as data and the failure message as error; a
\* success result has no error.
C6_EnvelopeInvariant ==
    /\ \A i \in 1..Len(results) : EnvelopeOK(results[i])
    /\ \A i \in 1..Len(saved.results) : EnvelopeOK(saved.results[i])

\* C6 witness: the results hold an error result and a success result.
C6_Witness ==
    \E i, j \in 1..Len(results) :
        results[i].status = "error" /\ results[j].status = "success"

\* C7: after construction framework.modules has exactly one instance for each
\* name whose flag is true in config['modules'], none for a name whose flag is
\* false, and as many modules as the mapping has enabled entries.
C7_OneInstancePerEnabledEntry ==
    Constructed =>
        /\ \A n \in Declared(config) :
              Cardinality({i \in 1..Len(modules) : modules[i] = n})
                  = IF Flag(config, n) THEN 1 ELSE 0
        /\ Len(modules) = Cardinality(EnabledNames(config))

\* C8 as stated: framework.modules lists the enabled modules in the order the
\* configuration declares them.
C8_DeclarationOrder ==
    Constructed =>
        \A i, j \in 1..Len(modules) :
            i < j => DeclPos(config, modules[i]) < DeclPos(config, modules[j])

\* C8 amended: framework.modules lists the enabled registered modules in the
\* fixed order passive_recon, active_recon, social_media, dark_web, whatever
\* the order in which the configuration declares them.
C8_FixedOrder ==
    Constructed =>
        /\ NamesOf([i \in 1..Len(modules) |-> [module_name |-> modules[i]]])
              = EnabledNames(config) \cap RegisteredNames
        /\ \A i, j \in 1..Len(modules) :
              i < j => RegPos(modules[i]) < RegPos(modules[j])

\* C8 witness: a constructed framework with two modules that the configuration
\* declares in the opposite order.
C8_Witness ==
    /\ Constructed
    /\ \E i, j \in 1..Len(modules) :
          i < j /\ DeclPos(config, modules[i]) > DeclPos(config, modules[j])

\* C9: a configuration that enables a name without a registered implementation
\* fails in construction, before any module is dispatched.
C9_UnknownNameRejected ==
    UnknownName \in EnabledNames(config) =>
        /\ pc \in {"new", "aborted"}
        /\ started = {}

-----------------------------------------------------------------------------
(* DarkWebModule._analyze_findings                                         *)

\* what data.get(field) finds: a list of n items, no such key, or None
FieldVals ==
    {[kind |-> "list", n |-> k] : k \in 0..MaxItems} \cup
    {[kind |-> "missing", n |-> 0], [kind |-> "none", n |-> 0]}

\* dates of events, as YYYYMMDD
EventDates == {20240105, 20240120, 20240203}

\* the dates of at most n dated events, in the order breach, paste and forum
\* data hold them
EventSeqsUpTo(n) == UNION {[1..k -> EventDates] : k \in 0..n}

EventSeqs == EventSeqsUpTo(MaxEvents)

\* the _events_from_* methods and the dated events of the data they are to
\* return: dark.py calls the methods and defines none of them (defined is
\* FALSE: the attribute lookup raises AttributeError); defined is TRUE for an
\* instance that is given them
HelpersOver(seqs) == {[defined |-> d, events |-> e] : d \in BOOLEAN, e \in seqs}

HelperVals == HelpersOver(EventSeqs)

\* len(data.get(field, [])): the default only replaces a missing key
LenRaises(v) == v.kind = "none"

LenOf(v) == IF v.kind = "list" THEN v.n ELSE 0

\* bool(data.get(field)): a non-empty list
Truthy(v) == v.kind = "list" /\ v.n > 0

Min(a, b) == IF a < b THEN a ELSE b

\* a clamped score that gives every indicator the weight 10
RiskScoreOneWeight(b, p, f, m) ==
    Min((LenOf(b) + LenOf(p) + LenOf(f) + LenOf(m)) * 10, 100)

\* a score that is the plain sum of the weighted counts
RiskScoreUnclamped(b, p, f, m) ==
    LenOf(b) * 10 + LenOf(p) * 5 + LenOf(f) * 2 + LenOf(m) * 8

\* min(sum(risk_factors.values()), 100)
RiskScore(b, p, f, m) ==
    Min(LenOf(b) * 10 + LenOf(p) * 5 + LenOf(f) * 2 + LenOf(m) * 8, 100)

\* YYYY-MM of a date
MonthOf(d) == d \div 100

\* sorted(all_events, key=date, reverse=True): stable, descending. An event is
\* its date and its position in all_events.
RECURSIVE InsertDesc(_, _)
InsertDesc(sorted, e) ==
    IF sorted = <<>> THEN <<e>>
    ELSE IF Head(sorted).date >= e.date
         THEN <<Head(sorted)>> \o InsertDesc(Tail(sorted), e)
         ELSE <<e>> \o sorted

\* the events in the order they were collected
AsCollected(evs) == evs

RECURSIVE SortDesc(_)
SortDesc(evs) ==
    IF evs = <<>> THEN <<>>
    ELSE InsertDesc(SortDesc(SubSeq(evs, 1, Len(evs) - 1)), evs[Len(evs)])

AllEvents(dates) == [i \in 1..Len(dates) |-> [date |-> dates[i], pos |-> i]]

RECURSIVE SumOver(_, _)
SumOver(S, cnt) ==
    IF S = {} THEN 0
    ELSE LET x == CHOOSE y \in S : TRUE IN cnt[x] + SumOver(S \ {x}, cnt)

\* a test that also rejects a timeline of two month buckets
TooFewBucketsOffByOne(months) == Cardinality(months) <= 2

\* len(sorted_months) < 2
TooFewBuckets(months) == Cardinality(months) < 2

\* a comparison that is not strict
IsIncreasingNotStrict(recent_events, older_events) ==
    2 * recent_events >= 3 * older_events

\* recent_events > older_events * 1.5
IsIncreasing(recent_events, older_events) ==
    2 * recent_events > 3 * older_events

\* recent_events * 1.5 < older_events
IsDecreasing(recent_events, older_events) ==
    3 * recent_events < 2 * older_events

\* a window of the two most recent month buckets
IsRecentMonthOfTwo(mo, months) == Cardinality({x \in months : x > mo}) < 2

\* sorted_months[-3:]: mo is one of the three largest months
IsRecentMonth(mo, months) == Cardinality({x \in months : x > mo}) < 3

\* _calculate_exposure_trend
CalculateExposureTrend(timeline) ==
    IF timeline = <<>> THEN "insufficient_data"
    ELSE
      LET months == {MonthOf(timeline[i].date) : i \in 1..Len(timeline)}
          cnt == [mo \in months |->
                    Cardinality({i \in 1..Len(timeline) :
                                    MonthOf(timeline[i].date) = mo})]
          recent_months == {mo \in months : IsRecentMonth(mo, months)}
          recent_events == SumOver(recent_months, cnt)
          older_events == SumOver(months \ recent_months, cnt)
      IN IF TooFewBuckets(months) THEN "insufficient_data"
         ELSE IF IsIncreasing(recent_events, older_events) THEN "increasing"
         ELSE IF IsDecreasing(recent_events, older_events) THEN "decreasing"
         ELSE "stable"

RecBreach ==
    {"Implement regular security assessments and penetration testing",
     "Review and update incident response procedures"}

RecExposure ==
    {"Enhance monitoring of public data exposure",
     "Implement data loss prevention (DLP) solutions"}

AllRecommendations == RecBreach \cup RecExposure

\* the character codes of the first 11 characters of a recommendation string
\* (no two of the four strings share them)
Codes(str) ==
    CASE str = "Enhance monitoring of public data exposure"
           -> <<69, 110, 104, 97, 110, 99, 101, 32, 109, 111, 110>>
      [] str = "Implement data loss prevention (DLP) solutions"
           -> <<73, 109, 112, 108, 101, 109, 101, 110, 116, 32, 100>>
      [] str = "Implement regular security assessments and penetration testing"
           -> <<73, 109, 112, 108, 101, 109, 101, 110, 116, 32, 114>>
      [] str = "Review and update incident response procedures"
           -> <<82, 101, 118, 105, 101, 119, 32, 97, 110, 100, 32>>

\* x < y for sequences of character codes
RECURSIVE LexLess(_, _)
LexLess(x, y) ==
    IF y = <<>> THEN FALSE
    ELSE IF x = <<>> THEN TRUE
    ELSE IF Head(x) # Head(y) THEN Head(x) < Head(y)
    ELSE LexLess(Tail(x), Tail(y))

\* str < other for two recommendation strings
StrLess(str, other) == LexLess(Codes(str), Codes(other))

RECURSIVE InsertAsc(_, _)
InsertAsc(sorted, str) ==
    IF sorted = <<>> THEN <<str>>
    ELSE IF StrLess(str, Head(sorted)) THEN <<str>> \o sorted
    ELSE <<Head(sorted)>> \o InsertAsc(Tail(sorted), str)

\* a list returned as the set was iterated
Unsorted(lst) == lst

\* sorted(lst) for a list of recommendation strings
RECURSIVE SortStrings(_)
SortStrings(lst) ==
    IF lst = <<>> THEN <<>>
    ELSE InsertAsc(SortStrings(Tail(lst)), Head(lst))

\* all orders in which a set can be iterated
RECURSIVE Perms(_)
Perms(S) ==
    IF S = {} THEN {<<>>}
    ELSE UNION {{<<x>> \o q : q \in Perms(S \ {x})} : x \in S}

\* the iteration order of a set of strings depends on the hash seed of the
\* process: an order of the four strings that every set of them follows
HashOrders == Perms(AllRecommendations)

Missing == [kind |-> "missing", n |-> 0]

\* the data mappings the four collectors build, as far as the analysis reads
\* them: each has the one field the collector fills
BreachData(b) == [known_breaches |-> b, recent_pastes |-> Missing, mentions |-> Missing]
PasteData(p) == [known_breaches |-> Missing, recent_pastes |-> p, mentions |-> Missing]
ForumData(f) == [known_breaches |-> Missing, recent_pastes |-> Missing, mentions |-> f]
MarketData(m) == [known_breaches |-> Missing, recent_pastes |-> Missing, mentions |-> m]

\* rules of which the second reads recent_pastes only
AddRecommendationsPastesOnly(recs, source) ==
    recs \cup
    (IF Truthy(source.known_breaches) THEN RecBreach ELSE {}) \cup
    (IF Truthy(source.recent_pastes) THEN RecExposure ELSE {})

\* the body of the loop of _generate_recommendations for one source
AddRecommendations(recs, source) ==
    recs \cup
    (IF Truthy(source.known_breaches) THEN RecBreach ELSE {}) \cup
    (IF Truthy(source.recent_pastes) \/ Truthy(source.mentions)
     THEN RecExposure ELSE {})

\* recommendations after `for source in data_sources`
RECURSIVE RecommendationSet(_)
RecommendationSet(sources) ==
    IF sources = <<>> THEN {}
    ELSE AddRecommendations(
             RecommendationSet(SubSeq(sources, 1, Len(sources) - 1)),
             sources[Len(sources)])

\* list(recommendations): the members in the iteration order of the set
ListOfSet(S, hash_order) == SelectSeq(hash_order, LAMBDA x : x \in S)

\* _generate_recommendations(*data_sources)
GenerateRecommendations(sources, hash_order) ==
    SortStrings(ListOfSet(RecommendationSet(sources), hash_order))

NoStatistics == [present |-> FALSE]

\* analysis = {'risk_score': 0, 'summary': [], 'recommendations': [],
\*             'timeline': [], 'statistics': {}}
InitialAnalysis ==
    [called |-> TRUE, risk_score |-> 0, summary |-> <<>>,
     recommendations |-> <<>>, timeline |-> <<>>, statistics |-> NoStatistics,
     error |-> "None"]

\* the analysis when no step raises: risk score, timeline, recommendations
\* and statistics, assigned in that order
CompletedAnalysis(b, p, f, m, h, hash_order) ==
    LET tl == SortDesc(AllEvents(h.events))
    IN [InitialAnalysis EXCEPT
          !.risk_score = RiskScore(b, p, f, m),
          !.timeline = tl,
          !.recommendations =
              GenerateRecommendations(
                  <<BreachData(b), PasteData(p), ForumData(f), MarketData(m)>>,
                  hash_order),
          !.statistics =
              [present |-> TRUE,
               total_breaches |-> LenOf(b),
               total_pastes |-> LenOf(p),
               total_mentions |-> LenOf(f),
               exposure_trend |-> CalculateExposureTrend(tl)]]

\* an except branch that returns the initial mapping with the error
AnalyzeFindingsResetOnError(b, p, f, m, h, hash_order) ==
    IF LenRaises(b) \/ LenRaises(p) \/ LenRaises(f) \/ LenRaises(m)
    THEN [InitialAnalysis EXCEPT !.error = "TypeError"]
    ELSE IF ~h.defined
    THEN [InitialAnalysis EXCEPT !.error = "AttributeError"]
    ELSE CompletedAnalysis(b, p, f, m, h, hash_order)

\* the body of _analyze_findings: the try block runs the steps in order and
\* the except branch records the error of the first step that raises, leaving
\* what the earlier steps assigned
AnalyzeFindings(b, p, f, m, h, hash_order) ==
    IF LenRaises(b) \/ LenRaises(p) \/ LenRaises(f) \/ LenRaises(m)
    THEN [InitialAnalysis EXCEPT !.error = "TypeError"]
    ELSE IF ~h.defined
    THEN [InitialAnalysis EXCEPT !.risk_score = RiskScore(b, p, f, m),
                                 !.error = "AttributeError"]
    ELSE CompletedAnalysis(b, p, f, m, h, hash_order)

\* the arguments of a call: the fields the analysis reads of the four data
\* mappings, and the helpers of the instance
InputsOver(fields, helpers) ==
    {[called |-> TRUE, known_breaches |-> b, recent_pastes |-> p,
      forum_mentions |-> f, market_mentions |-> m, helpers |-> h] :
        b \in fields, p \in fields, f \in fields, m \in fields, h \in helpers}

AnalysisInputs == InputsOver(FieldVals, HelperVals)

\* two of the iteration orders: ascending and descending
SomeHashOrders ==
    {<<"Enhance monitoring of public data exposure",
       "Implement data loss prevention (DLP) solutions",
       "Implement regular security assessments and penetration testing",
       "Review and update incident response procedures">>,
     <<"Review and update incident response procedures",
       "Implement regular security assessments and penetration testing",
       "Implement data loss prevention (DLP) solutions",
       "Enhance monitoring of public data exposure">>}

\* the call _analyze_findings(breach_data, paste_data, forum_data, market_data)
\* returns
CallAnalyzeFindings ==
    /\ a_in.called
    /\ ~analysis.called
    /\ \E ho \in SomeHashOrders :
          analysis' = AnalyzeFindings(a_in.known_breaches, a_in.recent_pastes,
                                      a_in.forum_mentions, a_in.market_mentions,
                                      a_in.helpers, ho)
    /\ UNCHANGED <<a_in, analysis2, t_in, t_out>>
    /\ UNCHANGED pvars
    /\ UNCHANGED xvars
    /\ UNCHANGED fvars

AnalysisInit ==
    /\ a_in \in AnalysisInputs
    /\ analysis = NoAnalysis
    /\ analysis2 = NoAnalysis
    /\ TrendIdle
    /\ OtherCallsIdle
    /\ RestIdle
    /\ FrameworkIdle

AnalysisNext == CallAnalyzeFindings

AnalysisSpec == AnalysisInit /\ [][AnalysisNext]_vars

\* C10: the risk_score of the analysis _analyze_findings returns is an integer
\* in 0..100 for all list lengths, missing and malformed fields, and also when
\* the analysis fails part-way.
C10_RiskScoreInRange ==
    analysis.called => analysis.risk_score \in 0..100

\* C10 witness: an analysis that failed after the risk score was computed, for
\* counts whose weighted sum exceeds 100.
C10_Witness ==
    /\ analysis.called
    /\ analysis.error # "None"
    /\ RiskScoreUnclamped(a_in.known_breaches, a_in.recent_pastes,
                          a_in.forum_mentions, a_in.market_mentions) > 100
    /\ analysis.risk_score = 100

-----------------------------------------------------------------------------
(* DarkWebModule._calculate_exposure_trend                                 *)

\* a timeline by month: the number of events of each month bucket, the
\* months in ascending order
MonthCounts == UNION {[1..n -> 1..MaxPerMonth] : n \in 0..MaxMonths}

\* the first day of the k-th month, as YYYYMMDD
MonthDate(k) == (202400 + k) * 100 + 1

EventsOfMonth(k, c) == [i \in 1..c |-> [date |-> MonthDate(k), pos |-> i]]

\* the timeline with counts[k] events in month k, most recent first
RECURSIVE TimelineOf(_)
TimelineOf(counts) ==
    IF counts = <<>> THEN <<>>
    ELSE EventsOfMonth(Len(counts), counts[Len(counts)]) \o
         TimelineOf(SubSeq(counts, 1, Len(counts) - 1))

\* the call self._calculate_exposure_trend(timeline) returns
CallCalculateExposureTrend ==
    /\ t_in.called
    /\ ~t_out.called
    /\ t_out' = [called |-> TRUE,
                 trend |-> CalculateExposureTrend(TimelineOf(t_in.counts))]
    /\ UNCHANGED <<a_in, analysis, analysis2, t_in>>
    /\ UNCHANGED pvars
    /\ UNCHANGED xvars
    /\ UNCHANGED fvars

TrendInit ==
    /\ \E c \in MonthCounts : t_in = [called |-> TRUE, counts |-> c]
    /\ t_out = NoCall
    /\ AnalysisIdle
    /\ OtherCallsIdle
    /\ RestIdle
    /\ FrameworkIdle

TrendNext == CallCalculateExposureTrend

TrendSpec == TrendInit /\ [][TrendNext]_vars

RECURSIVE SumSeq(_)
SumSeq(q) == IF q = <<>> THEN 0 ELSE Head(q) + SumSeq(Tail(q))

\* the events of the three most recent month buckets, and of all earlier ones
RecentCount(counts) ==
    SumSeq(SubSeq(counts, IF Len(counts) > 3 THEN Len(counts) - 2 ELSE 1,
                  Len(counts)))

OlderCount(counts) ==
    SumSeq(SubSeq(counts, 1, IF Len(counts) > 3 THEN Len(counts) - 3 ELSE 0))

\* C11: for a timeline of at least 2 month buckets, with recent the events of
\* the three most recent buckets and older those of all earlier buckets, the
\* trend is increasing if recent > 1.5 x older, otherwise decreasing if
\* older > 1.5 x recent, otherwise stable (both comparisons strict).
C11_TrendThresholds ==
    (t_out.called /\ Len(t_in.counts) >= 2) =>
        LET r == RecentCount(t_in.counts)
            o == OlderCount(t_in.counts)
        IN t_out.trend =
              IF 2 * r > 3 * o THEN "increasing"
              ELSE IF 2 * o > 3 * r THEN "decreasing"
              ELSE "stable"

\* C11 witness: recent is exactly 1.5 x older (3 and 2) and the trend is stable.
C11_Witness ==
    /\ t_out.called
    /\ Len(t_in.counts) >= 4
    /\ RecentCount(t_in.counts) = 3
    /\ OlderCount(t_in.counts) = 2
    /\ t_out.trend = "stable"

\* C12: the trend is insufficient_data exactly when the timeline has fewer
\* than 2 distinct month buckets (no event, or all events in one month).
C12_InsufficientData ==
    t_out.called =>
        (t_out.trend = "insufficient_data" <=> Len(t_in.counts) < 2)

\* C12 witness: several events, all of one month, give insufficient_data.
C12_Witness ==
    /\ t_out.called
    /\ Len(t_in.counts) = 1
    /\ t_in.counts[1] >= 2
    /\ t_out.trend = "insufficient_data"

\* C27: a timeline of exactly 2 or 3 month buckets has every event counted as
\* recent and none as older, and its trend is increasing whatever the counts
\* of the months; stable and decreasing are returned only for timelines of at
\* least 4 month buckets.
C27_FewBucketsIncreasing ==
    t_out.called =>
        /\ Len(t_in.counts) \in {2, 3} =>
              /\ RecentCount(t_in.counts) = SumSeq(t_in.counts)
              /\ OlderCount(t_in.counts) = 0
              /\ t_out.trend = "increasing"
        /\ t_out.trend \in {"stable", "decreasing"} => Len(t_in.counts) >= 4

\* C27 witness: three month buckets, the oldest with the most events and the
\* newest two with one event each, and the trend is increasing.
C27_Witness ==
    /\ t_out.called
    /\ Len(t_in.counts) = 3
    /\ t_in.counts[1] = MaxPerMonth
    /\ t_in.counts[2] = 1
    /\ t_in.counts[3] = 1
    /\ t_out.trend = "increasing"

-----------------------------------------------------------------------------
(* Claims about the fields _analyze_findings reads                         *)

\* the number an absent or empty field contributes
CountOrZero(v) == IF v.kind = "list" THEN v.n ELSE 0

IsMissing(v) == v.kind = "missing"

IsMalformed(v) == v.kind = "none"

InputFields ==
    {a_in.known_breaches, a_in.recent_pastes, a_in.forum_mentions,
     a_in.market_mentions}

\* C15: when a data mapping lacks known_breaches, recent_pastes or mentions,
\* the analysis counts that indicator as zero and completes: no error is
\* recorded, the risk score is the clamped weighted sum of the present
\* counts, and timeline, recommendations and statistics are computed.
C15_MissingFieldIsZero ==
    (/\ analysis.called
     /\ \E v \in InputFields : IsMissing(v)
     /\ \A v \in InputFields : ~IsMalformed(v))
    => /\ analysis.error = "None"
       /\ analysis.risk_score =
              Min(10 * CountOrZero(a_in.known_breaches)
                  + 5 * CountOrZero(a_in.recent_pastes)
                  + 2 * CountOrZero(a_in.forum_mentions)
                  + 8 * CountOrZero(a_in.market_mentions), 100)
       /\ analysis.statistics.present
       /\ analysis.statistics.total_breaches = CountOrZero(a_in.known_breaches)
       /\ analysis.statistics.total_pastes = CountOrZero(a_in.recent_pastes)
       /\ analysis.statistics.total_mentions = CountOrZero(a_in.forum_mentions)
       /\ Len(analysis.timeline) = Len(a_in.helpers.events)

\* a malformed field taken as absent
AsAbsent(v) == IF IsMalformed(v) THEN Missing ELSE v

\* C16: when an indicator field is malformed (known_breaches is None, not a
\* list), the analysis does not fail on it, and its risk score,
\* recommendations and statistics are those of the same input with that
\* field removed.
C16_MalformedFieldIsAbsent ==
    (/\ analysis.called
     /\ \E v \in InputFields : IsMalformed(v))
    => /\ analysis.error # "TypeError"
       /\ \E ho \in SomeHashOrders :
             LET removed ==
                     AnalyzeFindings(AsAbsent(a_in.known_breaches),
                                     AsAbsent(a_in.recent_pastes),
                                     AsAbsent(a_in.forum_mentions),
                                     AsAbsent(a_in.market_mentions),
                                     a_in.helpers, ho)
             IN /\ analysis.risk_score = removed.risk_score
                /\ analysis.recommendations = removed.recommendations
                /\ analysis.statistics = removed.statistics

\* min(100, 10 x breaches + 5 x pastes + 2 x forum mentions + 8 x market
\* mentions) of the counts of the call
WeightedCounts ==
    Min(10 * CountOrZero(a_in.known_breaches)
        + 5 * CountOrZero(a_in.recent_pastes)
        + 2 * CountOrZero(a_in.forum_mentions)
        + 8 * CountOrZero(a_in.market_mentions), 100)

\* C28: _analyze_findings always returns the mapping with its five fields.
\* The steps run in the order risk score, timeline, recommendations,
\* statistics: when one fails the error is recorded, the fields of earlier
\* steps hold their computed values and the fields of the failing step and
\* of all later steps hold their initial values.
C28_FailedStepKeepsEarlier ==
    analysis.called =>
        /\ analysis.summary = <<>>
        /\ analysis.error \in {"None", "TypeError", "AttributeError"}
        /\ analysis.error = "TypeError" <=> \E v \in InputFields : IsMalformed(v)
        /\ analysis.error = "TypeError" => analysis.risk_score = 0
        /\ analysis.error # "TypeError" => analysis.risk_score = WeightedCounts
        /\ analysis.error # "None" =>
              /\ analysis.timeline = <<>>
              /\ analysis.recommendations = <<>>
              /\ analysis.statistics = NoStatistics
        /\ analysis.error = "None" =>
              /\ Len(analysis.timeline) = Len(a_in.helpers.events)
              /\ analysis.statistics.present

\* C28 witness: the timeline step failed on data with breaches and a dated
\* event: the risk score is computed, the later fields are initial.
C28_Witness ==
    /\ analysis.called
    /\ analysis.error = "AttributeError"
    /\ a_in.helpers.events # <<>>
    /\ Truthy(a_in.known_breaches)
    /\ analysis.risk_score > 0
    /\ analysis.recommendations = <<>>
    /\ ~analysis.statistics.present

-----------------------------------------------------------------------------
(* The risk score                                                          *)

\* the calls checked for their risk score: the data mappings hold, next to
\* the fields the analysis reads, potential_exposures, historical_pastes,
\* discussions and listings of other_items items each
RiskInputs ==
    {inp @@ [other_items |-> k] :
        inp \in InputsOver(FieldVals, HelpersOver({<<>>})),
        k \in 0..MaxOtherItems}

RiskInit ==
    /\ a_in \in RiskInputs
    /\ analysis = NoAnalysis
    /\ analysis2 = NoAnalysis
    /\ TrendIdle
    /\ OtherCallsIdle
    /\ RestIdle
    /\ FrameworkIdle

RiskNext == CallAnalyzeFindings

RiskSpec == RiskInit /\ [][RiskNext]_vars

\* the lists of at least the counts of the call
AtLeast(v) == {[kind |-> "list", n |-> k] : k \in CountOrZero(v)..MaxItems}

\* C25: the risk score of an analysis of well-formed data is min(100, 10 x
\* known breaches + 5 x recent pastes + 2 x forum mentions + 8 x market
\* mentions): 0 exactly when the four counts are 0, not lower for higher
\* counts, and the same whatever the other fields of the data hold.
C25_RiskScoreFormula ==
    (analysis.called /\ \A v \in InputFields : ~IsMalformed(v)) =>
        /\ analysis.risk_score = WeightedCounts
        /\ analysis.risk_score = 0 <=> \A v \in InputFields : CountOrZero(v) = 0
        /\ \A b \in AtLeast(a_in.known_breaches), p \in AtLeast(a_in.recent_pastes),
             f \in AtLeast(a_in.forum_mentions), m \in AtLeast(a_in.market_mentions) :
               RiskScore(b, p, f, m) >= analysis.risk_score

\* C25 witness: an analysis of data with one forum mention and items in the
\* fields that are not read: the score is 2.
C25_Witness ==
    /\ analysis.called
    /\ a_in.other_items > 0
    /\ CountOrZero(a_in.forum_mentions) = 1
    /\ CountOrZero(a_in.known_breaches) = 0
    /\ CountOrZero(a_in.recent_pastes) = 0
    /\ CountOrZero(a_in.market_mentions) = 0
    /\ analysis.risk_score = 2

-----------------------------------------------------------------------------
(* The timeline, and a second call of _analyze_findings                    *)

\* the field values of the calls checked for their timeline
TimelineFields == {v \in FieldVals : v.kind = "list" => v.n <= 1}

TimelineInputs ==
    InputsOver(TimelineFields, HelpersOver(EventSeqsUpTo(MaxTimelineEvents)))

\* a second call of _analyze_findings on the arguments of the first: the
\* recommendation set is a new set object, iterated in any order
CallAnalyzeFindingsAgain ==
    /\ analysis.called
    /\ ~analysis2.called
    /\ \E ho \in HashOrders :
          analysis2' = AnalyzeFindings(a_in.known_breaches, a_in.recent_pastes,
                                       a_in.forum_mentions,
                                       a_in.market_mentions, a_in.helpers, ho)
    /\ UNCHANGED <<a_in, analysis, t_in, t_out>>
    /\ UNCHANGED pvars
    /\ UNCHANGED xvars
    /\ UNCHANGED fvars

TimelineInit ==
    /\ a_in \in TimelineInputs
    /\ analysis = NoAnalysis
    /\ analysis2 = NoAnalysis
    /\ TrendIdle
    /\ OtherCallsIdle
    /\ RestIdle
    /\ FrameworkIdle

TimelineNext == CallAnalyzeFindings \/ CallAnalyzeFindingsAgain

TimelineSpec == TimelineInit /\ [][TimelineNext]_vars

\* tl holds each of the events evs once, later dates first and events of one
\* date in the order of evs
IsTimelineOf(tl, evs) ==
    /\ Len(tl) = Len(evs)
    /\ {tl[i].pos : i \in 1..Len(tl)} = 1..Len(evs)
    /\ \A i \in 1..Len(tl) : tl[i].date = evs[tl[i].pos]
    /\ \A i, j \in 1..Len(tl) :
          i < j => \/ tl[i].date > tl[j].date
                   \/ tl[i].date = tl[j].date /\ tl[i].pos < tl[j].pos

\* C13: the timeline of an analysis holds every dated event of the breach,
\* paste and forum data, most recent first, events of equal date in the
\* order they were collected.
C13_TimelineHoldsEveryEvent ==
    analysis.called => IsTimelineOf(analysis.timeline, a_in.helpers.events)

\* the timeline is the sorted collection whenever the analysis got as far as
\* building it
TimelineSortedWhenBuilt ==
    (analysis.called /\ analysis.error = "None")
    => IsTimelineOf(analysis.timeline, a_in.helpers.events)

\* C17: two calls of _analyze_findings on equal data return the same risk
\* score, the same timeline in the same order and the same recommendation
\* list, whatever order the second call's recommendation set iterates in.
C17_AnalysisDeterministic ==
    (analysis.called /\ analysis2.called)
    => /\ analysis2.risk_score = analysis.risk_score
       /\ analysis2.timeline = analysis.timeline
       /\ analysis2.recommendations = analysis.recommendations

\* C17 witness: two completed calls on data that gives all four
\* recommendations and a timeline of three events, two of one date.
C17_Witness ==
    /\ analysis.called
    /\ analysis2.called
    /\ analysis2.error = "None"
    /\ Len(analysis2.recommendations) = 4
    /\ Len(analysis2.timeline) = 3
    /\ \E i \in 1..2 : analysis2.timeline[i].date = analysis2.timeline[i + 1].date
    /\ analysis2.risk_score > 0


-----------------------------------------------------------------------------
(* DarkWebModule._generate_recommendations                                 *)

\* the values of a field of a data source the rules of
\* _generate_recommendations tell apart: absent, empty, not empty
RecFields == {v \in FieldVals : v.kind # "none" /\ (v.kind = "list" => v.n <= 1)}

\* the data sources: mappings that may hold any of the three fields
RecSources ==
    {[known_breaches |-> b, recent_pastes |-> p, mentions |-> f] :
        b \in RecFields, p \in RecFields, f \in RecFields}

RecInputs == UNION {[1..n -> RecSources] : n \in 0..MaxSources}

\* the call _generate_recommendations(*data_sources) returns, the set iterated
\* in any order
CallGenerateRecommendations ==
    /\ r_in.called
    /\ ~r_out.called
    /\ \E ho \in HashOrders :
          r_out' = [called |-> TRUE,
                    recommendations |->
                        GenerateRecommendations(r_in.sources, ho)]
    /\ UNCHANGED <<a_in, analysis, analysis2, t_in, t_out, r_in, m_in, m_out>>
    /\ UNCHANGED xvars
    /\ UNCHANGED fvars

RecInit ==
    /\ r_in \in {[called |-> TRUE, sources |-> ss] : ss \in RecInputs}
    /\ r_out = NoCall
    /\ m_in = NoCall
    /\ m_out = NoCall
    /\ AnalysisIdle
    /\ TrendIdle
    /\ RestIdle
    /\ FrameworkIdle

RecNext == CallGenerateRecommendations

RecSpec == RecInit /\ [][RecNext]_vars

\* the sources of the call that trigger the breach rule
BreachSources ==
    {i \in 1..Len(r_in.sources) : Truthy(r_in.sources[i].known_breaches)}

\* how often str is in the returned list
Occurrences(str) ==
    Cardinality({i \in 1..Len(r_out.recommendations) :
                    r_out.recommendations[i] = str})

\* C14: the list _generate_recommendations returns has no string twice and is
\* in ascending lexicographic order, for every combination of data sources;
\* when the breach rule is triggered, by one source or by several, each
\* breach recommendation is in the list exactly once.
C14_RecommendationsSortedUnique ==
    r_out.called =>
        LET recs == r_out.recommendations
        IN /\ \A i, j \in 1..Len(recs) : i < j => StrLess(recs[i], recs[j])
           /\ \A str \in AllRecommendations : Occurrences(str) <= 1
           /\ BreachSources # {} => \A str \in RecBreach : Occurrences(str) = 1
           /\ BreachSources = {} => \A str \in RecBreach : Occurrences(str) = 0

\* C14 witness: two sources that each trigger the breach rule, one of them
\* the exposure rule too, and a list of all four recommendations.
C14_Witness ==
    /\ r_out.called
    /\ Cardinality(BreachSources) = 2
    /\ Len(r_out.recommendations) = 4
    /\ \A str \in RecBreach : Occurrences(str) = 1

\* some source of the call has a non-empty recent_pastes or mentions
ExposureSources ==
    {i \in 1..Len(r_in.sources) :
        Truthy(r_in.sources[i].recent_pastes) \/ Truthy(r_in.sources[i].mentions)}

\* C26: the list holds the two breach recommendations exactly when some
\* source has a non-empty known_breaches, the two exposure recommendations
\* exactly when some source has a non-empty recent_pastes or mentions, and no
\* other string; it is empty exactly when neither rule fires, and its length
\* is 0, 2 or 4.
C26_PresenceRules ==
    r_out.called =>
        LET recs == r_out.recommendations
            held == {recs[i] : i \in 1..Len(recs)}
        IN /\ held = (IF BreachSources # {} THEN RecBreach ELSE {}) \cup
                     (IF ExposureSources # {} THEN RecExposure ELSE {})
           /\ recs = <<>> <=> (BreachSources = {} /\ ExposureSources = {})
           /\ Len(recs) \in {0, 2, 4}

\* C26 witness: the only non-empty field of the sources is a mentions list,
\* and the list is the two exposure recommendations.
C26_Witness ==
    /\ r_out.called
    /\ Len(r_in.sources) = 2
    /\ BreachSources = {}
    /\ \A i \in 1..2 : ~Truthy(r_in.sources[i].recent_pastes)
    /\ ExposureSources # {}
    /\ Len(r_out.recommendations) = 2
    /\ \A i \in 1..2 : r_out.recommendations[i] \in RecExposure

-----------------------------------------------------------------------------
(* run of the modules of src/src/osint/modules                             *)

\* the collectors a module's run awaits, by the key of data they fill
Collectors(module) ==
    CASE module = "passive_recon"
           -> {"whois_information", "dns_records", "ssl_certificate",
               "discovered_subdomains"}
      [] module = "active_recon"
           -> {"port_scan", "web_technologies", "vulnerabilities"}
      [] module = "social_media"
           -> {"profiles", "mentions", "metadata", "employees"}
      [] module = "dark_web"
           -> {"breaches", "pastes", "forum_mentions", "market_mentions",
               "analysis"}

\* the collectors whose except branch only logs: they return what they had
LogOnly == {"dns_records", "discovered_subdomains", "vulnerabilities"}

\* what a collector returns when the lookup inside it raises
OnFailure(key) ==
    IF key \in LogOnly THEN "partial" ELSE "error_entry"

\* what run puts under key: the collector's findings, or what its except
\* branch returned
Collected(key, failing) ==
    IF key \in failing THEN OnFailure(key) ELSE "findings"

\* an address a caller put into the target before the run
PresetIP == "10.0.0.1"

\* the targets given to run: objects ref, with ip_addresses unset or set
RunTargets ==
    {[ref |-> r, domain |-> d, ip_addresses |-> ips, subdomains |-> <<>>] :
        r \in {"t1", "t2"}, d \in Domains, ips \in {<<>>, <<PresetIP>>}}

\* socket.gethostbyname raises: only the active module calls it, and only for
\* a target without addresses
ResolutionFails(module, t, resolution) ==
    module = "active_recon" /\ t.ip_addresses = <<>> /\ resolution = "fails"

\* the fields of the target object when run returns
TargetAfter(module, t, resolution) ==
    IF module = "active_recon" /\ ~ResolutionFails(module, t, resolution)
    THEN Resolve(t) ELSE t

\* ScanResult(target=target, module_name=self.module_name, data=data)
ReturnedResult(module, t, after, data) ==
    [called |-> TRUE, module_name |-> module, status |-> "success",
     data |-> data, error |-> "None", target_ref |-> t.ref,
     target_after |-> after]

\* a run without the except branch: the exception leaves run
RunModuleNoExcept(module, t, failing, resolution, run_raises) ==
    LET data == [key \in Collectors(module) |-> Collected(key, failing)]
        after == TargetAfter(module, t, resolution)
    IN IF ResolutionFails(module, t, resolution) \/ run_raises
       THEN [called |-> TRUE, module_name |-> "None", status |-> "raised",
             data |-> <<>>, error |-> "Exception", target_ref |-> "None",
             target_after |-> after]
       ELSE ReturnedResult(module, t, after, data)

\* run(target) of a module: no collector raises, so the except branch of
\* run sees only what raises in a statement of run itself, the resolution of
\* the active module included
RunModule(module, t, failing, resolution, run_raises) ==
    LET data == [key \in Collectors(module) |-> Collected(key, failing)]
        after == TargetAfter(module, t, resolution)
    IN IF ResolutionFails(module, t, resolution) \/ run_raises
       THEN [called |-> TRUE, module_name |-> module, status |-> "error",
             data |-> <<>>, error |-> "Exception", target_ref |-> t.ref,
             target_after |-> after]
       ELSE ReturnedResult(module, t, after, data)

\* the calls: a module, the target, the collectors whose lookup fails,
\* whether the resolution of the domain fails, and whether another statement
\* of run raises
RunInputs ==
    UNION {{[called |-> TRUE, module |-> mod, target |-> t, failing |-> fs,
             resolution |-> rs, run_raises |-> rr] :
                t \in RunTargets, fs \in SUBSET Collectors(mod),
                rs \in {"ok", "fails"}, rr \in BOOLEAN} :
           mod \in RegisteredNames}

CallRun ==
    /\ m_in.called
    /\ ~m_out.called
    /\ m_out' = RunModule(m_in.module, m_in.target, m_in.failing,
                          m_in.resolution, m_in.run_raises)
    /\ UNCHANGED <<a_in, analysis, analysis2, t_in, t_out, r_in, r_out, m_in>>
    /\ UNCHANGED xvars
    /\ UNCHANGED fvars

RunInit ==
    /\ m_in \in RunInputs
    /\ m_out = NoCall
    /\ r_in = NoCall
    /\ r_out = NoCall
    /\ AnalysisIdle
    /\ TrendIdle
    /\ RestIdle
    /\ FrameworkIdle

RunNext == CallRun

RunSpec == RunInit /\ [][RunNext]_vars

\* C18: a failure inside a module surfaces as an error result, and a result
\* of status success has no error entry anywhere in its data.
C18_NoErrorEntryInSuccess ==
    m_out.called =>
        /\ m_in.failing # {} => m_out.status = "error"
        /\ m_out.status = "success" =>
               \A key \in DOMAIN m_out.data : m_out.data[key] # "error_entry"

\* C23: for every module and every outcome of its collectors, run returns a
\* ScanResult and does not raise; the result's module_name is the module's
\* name and its target is the object passed in.
C23_RunAlwaysReturnsResult ==
    m_out.called =>
        /\ m_out.status \in {"success", "error"}
        /\ m_out.module_name = m_in.module
        /\ m_out.target_ref = m_in.target.ref

\* C23 witness: a run of the social-media module in which lookups failed and
\* a statement of run raised, returning the error result of that module.
C23_Witness ==
    /\ m_out.called
    /\ m_in.module = "social_media"
    /\ m_in.failing # {}
    /\ m_in.run_raises
    /\ m_out.status = "error"
    /\ m_out.module_name = "social_media"

\* C30: only the active module writes the target: it sets ip_addresses to the
\* one resolved address when the target has none, leaves a target that has
\* addresses unchanged, and on a failed resolution leaves the target
\* unchanged and returns an error result with empty data; the passive,
\* social-media and dark-web runs leave every field of the target as it was.
C30_OnlyActiveWritesTarget ==
    m_out.called =>
        LET t == m_in.target
            after == m_out.target_after
        IN /\ m_in.module # "active_recon" => after = t
           /\ (m_in.module = "active_recon" /\ t.ip_addresses # <<>>) => after = t
           /\ (m_in.module = "active_recon" /\ t.ip_addresses = <<>>
               /\ m_in.resolution = "fails")
              => /\ after = t
                 /\ m_out.status = "error"
                 /\ m_out.data = <<>>
           /\ (m_in.module = "active_recon" /\ t.ip_addresses = <<>>
               /\ m_in.resolution = "ok")
              => /\ after.ip_addresses = <<ResolvedIP>>
                 /\ after.domain = t.domain
                 /\ after.subdomains = t.subdomains
                 /\ after.ref = t.ref

\* C30 witness: a run of the active module on a target that already holds an
\* address returns with the target unchanged.
C30_Witness ==
    /\ m_out.called
    /\ m_in.module = "active_recon"
    /\ m_in.target.ip_addresses = <<PresetIP>>
    /\ m_out.status = "success"
    /\ m_out.target_after = m_in.target

-----------------------------------------------------------------------------
(* Claims about the results of a scan                                      *)

C20_SavedAfterAllResolved ==
    saved.called =>
        /\ inflight = "none"
        /\ idx > Len(modules)
        /\ started = {modules[i] : i \in 1..Len(modules)}
        /\ NamesOf(saved.results) = started
        /\ Len(saved.results) = Len(modules)
        /\ saved.results = results

\* C20 witness: a scan of three modules, one of them failed, that has
\* returned from save_results.
C20_Witness ==
    /\ saved.called
    /\ pc = "done"
    /\ Len(modules) = 3
    /\ failed # {}
    /\ Len(saved.results) = 3

-----------------------------------------------------------------------------
(* The dark-web collectors _check_data_breaches and _monitor_paste_sites   *)

\* the outcomes of one lookup: it raises, or returns what it found
LookupOutcomes ==
    {[kind |-> "raises", n |-> 0]} \cup
    {[kind |-> "found", n |-> k] : k \in 0..MaxFound}

\* the first step of a collector (the HaveIBeenPwned request of
\* _check_data_breaches, the ClientSession of _monitor_paste_sites): skipped
\* (no API key, or a status other than 200), raising, or done
FirstOutcomes == LookupOutcomes \cup {[kind |-> "skipped", n |-> 0]}

\* the three further lookups of a collector, gathered together: methods the
\* class does not define (defined is FALSE: building the list raises
\* AttributeError), or three outcomes
GatheredLookups ==
    {[defined |-> FALSE, outcomes |-> <<>>]} \cup
    {[defined |-> TRUE, outcomes |-> o] : o \in [1..3 -> LookupOutcomes]}

\* the n items lookup nr found
ItemsOf(nr, n) == [k \in 1..n |-> [lookup |-> nr, item |-> k]]

\* `for result in results: ....extend(result[...])`
RECURSIVE ExtendAll(_, _)
ExtendAll(outcomes, nr) ==
    IF outcomes = <<>> THEN <<>>
    ELSE ItemsOf(nr, Head(outcomes).n) \o ExtendAll(Tail(outcomes), nr + 1)

\* asyncio.gather(*lookups) raises when a lookup raises
GatherRaises(lookups) ==
    \E i \in 1..Len(lookups.outcomes) : lookups.outcomes[i].kind = "raises"

\* an except branch that returns a new mapping with the error
CheckDataBreachesFreshOnError(first, lookups) ==
    IF first.kind = "raises" \/ ~lookups.defined \/ GatherRaises(lookups)
    THEN [called |-> TRUE, raised |-> FALSE, known_breaches |-> <<>>,
          error |-> "Exception"]
    ELSE [called |-> TRUE, raised |-> FALSE,
          known_breaches |-> ItemsOf(0, first.n) \o ExtendAll(lookups.outcomes, 1),
          error |-> "None"]

\* _check_data_breaches: the mapping starts with known_breaches = [], the
\* try block extends the list in place, the except branch adds 'error'
CheckDataBreaches(first, lookups) ==
    LET from_hibp == ItemsOf(0, first.n)
    IN IF first.kind = "raises"
       THEN [called |-> TRUE, raised |-> FALSE, known_breaches |-> <<>>,
             error |-> "Exception"]
       ELSE IF ~lookups.defined
       THEN [called |-> TRUE, raised |-> FALSE, known_breaches |-> from_hibp,
             error |-> "AttributeError"]
       ELSE IF GatherRaises(lookups)
       THEN [called |-> TRUE, raised |-> FALSE, known_breaches |-> from_hibp,
             error |-> "Exception"]
       ELSE [called |-> TRUE, raised |-> FALSE,
             known_breaches |-> from_hibp \o ExtendAll(lookups.outcomes, 1),
             error |-> "None"]

\* _monitor_paste_sites: the list is extended only after all three searches
\* have returned
MonitorPasteSites(first, lookups) ==
    IF first.kind = "raises"
    THEN [called |-> TRUE, raised |-> FALSE, recent_pastes |-> <<>>,
          error |-> "Exception"]
    ELSE IF ~lookups.defined
    THEN [called |-> TRUE, raised |-> FALSE, recent_pastes |-> <<>>,
          error |-> "AttributeError"]
    ELSE IF GatherRaises(lookups)
    THEN [called |-> TRUE, raised |-> FALSE, recent_pastes |-> <<>>,
          error |-> "Exception"]
    ELSE [called |-> TRUE, raised |-> FALSE,
          recent_pastes |-> ExtendAll(lookups.outcomes, 1),
          error |-> "None"]

\* the calls: the session of _monitor_paste_sites finds nothing itself
CollectorInputs ==
    {[called |-> TRUE, collector |-> "breaches", first |-> fo, lookups |-> lk] :
        fo \in FirstOutcomes, lk \in GatheredLookups} \cup
    {[called |-> TRUE, collector |-> "pastes", first |-> fo, lookups |-> lk] :
        fo \in {o \in FirstOutcomes : o.n = 0}, lk \in GatheredLookups}

CallCollector ==
    /\ c_in.called
    /\ ~c_out.called
    /\ c_out' = IF c_in.collector = "breaches"
                THEN CheckDataBreaches(c_in.first, c_in.lookups)
                ELSE MonitorPasteSites(c_in.first, c_in.lookups)
    /\ UNCHANGED <<a_in, analysis, analysis2, t_in, t_out, c_in, disk, cms,
                   clock, scans, reports>>
    /\ UNCHANGED pvars
    /\ UNCHANGED fvars

CollectorInit ==
    /\ c_in \in CollectorInputs
    /\ c_out = NoCall
    /\ ConfigIdle
    /\ ScansIdle
    /\ AnalysisIdle
    /\ TrendIdle
    /\ OtherCallsIdle
    /\ FrameworkIdle

CollectorNext == CallCollector

CollectorSpec == CollectorInit /\ [][CollectorNext]_vars

\* a lookup of the call failed
LookupFailed ==
    \/ c_in.first.kind = "raises"
    \/ ~c_in.lookups.defined
    \/ GatherRaises(c_in.lookups)

IsList(x) == DOMAIN x = 1..Len(x)

\* C24: for every outcome of the lookups _check_data_breaches returns a
\* mapping with a known_breaches list and _monitor_paste_sites one with a
\* recent_pastes list; a failed lookup is recorded in the mapping and does
\* not leave the collector as an exception, and the items that were in the
\* list before the failure are in the returned list.
C24_CollectorsTotal ==
    c_out.called =>
        /\ ~c_out.raised
        /\ c_in.collector = "breaches" =>
              /\ "known_breaches" \in DOMAIN c_out
              /\ IsList(c_out.known_breaches)
        /\ c_in.collector = "pastes" =>
              /\ "recent_pastes" \in DOMAIN c_out
              /\ IsList(c_out.recent_pastes)
        /\ LookupFailed <=> c_out.error # "None"
        /\ (c_in.collector = "breaches" /\ c_in.first.kind = "found"
            /\ LookupFailed)
           => c_out.known_breaches = ItemsOf(0, c_in.first.n)

\* C24 witness: the HaveIBeenPwned request found a breach, a later lookup
\* raised, and the mapping holds the breach and the error.
C24_Witness ==
    /\ c_out.called
    /\ c_in.collector = "breaches"
    /\ c_in.first.kind = "found"
    /\ c_in.first.n = 1
    /\ c_in.lookups.defined
    /\ GatherRaises(c_in.lookups)
    /\ Len(c_out.known_breaches) = 1
    /\ c_out.error = "Exception"

-----------------------------------------------------------------------------
(* ConfigManager and its configuration file                                *)

ConfigPaths == {"config.yaml", "other.yaml"}

\* config['modules'] as a mapping
ModuleFlags == [RegisteredNames -> BOOLEAN]

\* the 'modules' section of the default configuration
DefaultModules ==
    [n \in RegisteredNames |-> n # "dark_web"]

\* yaml.dump writes the keys of a mapping in sorted order
SortedKeys == <<"active_recon", "dark_web", "passive_recon", "social_media">>

\* the YAML text of a flag, and the flag of a YAML text
BoolText(flag) == IF flag THEN "true" ELSE "false"

ParseBool(text) == text = "true"

\* a dump that leaves out the flags that are off
DumpEnabledOnly(cfg) ==
    LET keys == SelectSeq(SortedKeys, LAMBDA k : k \in DOMAIN cfg /\ cfg[k])
    IN [i \in 1..Len(keys) |-> [key |-> keys[i], value |-> BoolText(cfg[keys[i]])]]

\* yaml.dump(config, f): one line per key
Dump(cfg) ==
    LET keys == SelectSeq(SortedKeys, LAMBDA k : k \in DOMAIN cfg)
    IN [i \in 1..Len(keys) |-> [key |-> keys[i], value |-> BoolText(cfg[keys[i]])]]

\* yaml.safe_load(f): the mapping of the lines
Load(text) ==
    [k \in {text[i].key : i \in 1..Len(text)} |->
        ParseBool((CHOOSE ln \in {text[i] : i \in 1..Len(text)} : ln.key = k).value)]

NoFile == [exists |-> FALSE, text |-> <<>>]

\* the files a path can hold before the first construction: none, an empty
\* file, or the dump of some configuration
ConfigFiles ==
    {NoFile, [exists |-> TRUE, text |-> <<>>]} \cup
    {[exists |-> TRUE, text |-> Dump(cfg)] : cfg \in ModuleFlags}

\* ConfigManager(config_path): _load_config, and _create_default_config when
\* os.path.exists(config_path) is false
ConstructConfigManager(path) ==
    /\ Len(cms) < MaxManagers
    /\ IF ~disk[path].exists
       THEN /\ disk' = [disk EXCEPT ![path] =
                           [exists |-> TRUE, text |-> Dump(DefaultModules)]]
            /\ cms' = Append(cms, [path |-> path, existed |-> FALSE,
                                   config |-> DefaultModules])
       ELSE /\ cms' = Append(cms, [path |-> path, existed |-> TRUE,
                                   config |-> Load(disk[path].text)])
            /\ UNCHANGED disk
    /\ UNCHANGED <<a_in, analysis, analysis2, t_in, t_out, c_in, c_out, clock,
                   scans, reports>>
    /\ UNCHANGED pvars
    /\ UNCHANGED fvars

ConfigInit ==
    /\ disk \in [ConfigPaths -> ConfigFiles]
    /\ cms = <<>>
    /\ CollectorIdle
    /\ ScansIdle
    /\ AnalysisIdle
    /\ TrendIdle
    /\ OtherCallsIdle
    /\ FrameworkIdle

ConfigNext == \E path \in ConfigPaths : ConstructConfigManager(path)

ConfigSpec == ConfigInit /\ [][ConfigNext]_vars

\* every ConfigManager built on a path without a file uses the default, the
\* file is there afterwards, and every later ConfigManager on that path has
\* loaded a configuration equal to the default
DefaultCreatedAndReloaded ==
    \A i \in 1..Len(cms) :
        ~cms[i].existed =>
            /\ cms[i].config = DefaultModules
            /\ cms[i].config["passive_recon"]
            /\ ~cms[i].config["dark_web"]
            /\ disk[cms[i].path].exists
            /\ \A j \in (i + 1)..Len(cms) :
                  cms[j].path = cms[i].path =>
                      cms[j].existed /\ cms[j].config = DefaultModules

\* a step leaves every file that exists as it is
ExistingFilesKept ==
    \A path \in DOMAIN disk : disk[path].exists => disk'[path] = disk[path]

\* C22: constructing ConfigManager on a path without a file writes the
\* default configuration there and uses it (passive_recon on, dark_web off);
\* a later ConfigManager on the same path loads a configuration equal to the
\* default; constructing on a path with a file never rewrites the file.
C22_DefaultConfigRoundTrip ==
    []DefaultCreatedAndReloaded /\ [][ExistingFilesKept]_vars

\* C22 witness: two ConfigManager objects on one path that had no file: the
\* first created the default file, the second loaded it.
C22_Witness ==
    /\ Len(cms) = 2
    /\ cms[1].path = cms[2].path
    /\ ~cms[1].existed
    /\ cms[2].existed
    /\ cms[2].config = DefaultModules
    /\ disk[cms[1].path].text = Dump(DefaultModules)

-----------------------------------------------------------------------------
(* Scans over time: the timestamp of the target and the report file        *)

\* the tick at which framework.py was imported and the class ScanTarget
\* defined
ImportTime == 0

\* the domains scanned; the second ends like a report's time stamp
ScanDomains == {"example.com", "example.com_20240101_000000"}

\* config['output']['directory']
ResultsDir == "results"

\* %S: two digits
Pad2(n) == IF n < 10 THEN "0" \o ToString(n) ELSE ToString(n)

\* a time stamp of the resolution of the clock's ticks
SaveStampPerTick(t) == "20240101_00" \o Pad2(t \div TicksPerSecond) \o Pad2(t)

\* datetime.now().strftime("%Y%m%d_%H%M%S") at tick t: the second of t
SaveStamp(t) == "20240101_0000" \o Pad2(t \div TicksPerSecond)

\* f"{self.results_dir}/osint_{target.domain}_{timestamp}.json"
ReportFile(dir, domain, stamp) ==
    dir \o "/osint_" \o domain \o "_" \o stamp \o ".json"

\* ScanTarget(domain=domain): the default of the field timestamp is the value
\* datetime.now().isoformat() had when the class was defined
NewScanTarget(domain) == [domain |-> domain, timestamp |-> ImportTime]

TickClock ==
    /\ clock < MaxClock
    /\ clock' = clock + 1
    /\ UNCHANGED <<a_in, analysis, analysis2, t_in, t_out, c_in, c_out, disk,
                   cms, scans, reports>>
    /\ UNCHANGED pvars
    /\ UNCHANGED fvars

\* scan(domain) begins: target = ScanTarget(domain=domain)
StartScan(domain) ==
    /\ Len(scans) < MaxScans
    /\ scans' = Append(scans, [target |-> NewScanTarget(domain),
                               started_at |-> clock, saved |-> FALSE,
                               saved_at |-> 0, save_nr |-> 0, file |-> ""])
    /\ UNCHANGED <<a_in, analysis, analysis2, t_in, t_out, c_in, c_out, disk,
                   cms, clock, reports>>
    /\ UNCHANGED pvars
    /\ UNCHANGED fvars

\* scan nr ends: save_results(results, target) opens the file for writing
SaveReport(nr) ==
    /\ nr \in 1..Len(scans)
    /\ ~scans[nr].saved
    /\ LET file == ReportFile(ResultsDir, scans[nr].target.domain,
                              SaveStamp(clock))
           saves == Cardinality({k \in 1..Len(scans) : scans[k].saved})
       IN /\ reports' = [f \in DOMAIN reports \cup {file} |->
                            IF f = file THEN nr ELSE reports[f]]
          /\ scans' = [scans EXCEPT ![nr].saved = TRUE,
                                    ![nr].saved_at = clock,
                                    ![nr].save_nr = saves + 1,
                                    ![nr].file = file]
    /\ UNCHANGED <<a_in, analysis, analysis2, t_in, t_out, c_in, c_out, disk,
                   cms, clock>>
    /\ UNCHANGED pvars
    /\ UNCHANGED fvars

ScansInit ==
    /\ clock = ImportTime
    /\ scans = <<>>
    /\ reports = <<>>
    /\ CollectorIdle
    /\ ConfigIdle
    /\ AnalysisIdle
    /\ TrendIdle
    /\ OtherCallsIdle
    /\ FrameworkIdle

ScansNext ==
    \/ TickClock
    \/ \E domain \in ScanDomains : StartScan(domain)
    \/ \E nr \in 1..MaxScans : SaveReport(nr)

ScansSpec == ScansInit /\ [][ScansNext]_vars

\* C21: the timestamp of a scan's target is the time that scan started, so
\* scans started at different times have different timestamps.
C21_TimestampIsScanStart ==
    /\ \A i \in 1..Len(scans) : scans[i].target.timestamp = scans[i].started_at
    /\ \A i, j \in 1..Len(scans) :
          scans[i].started_at # scans[j].started_at
          => scans[i].target.timestamp # scans[j].target.timestamp

SavedScans == {i \in 1..Len(scans) : scans[i].saved}

SecondOf(t) == t \div TicksPerSecond

\* C29: two saves write the same file exactly when they have the same domain
\* and the same save second (the results directory being one): saves that
\* differ in domain or second write different files, and of two scans of one
\* domain saved within a second the later report replaces the earlier.
C29_ReportFilePerDomainAndSecond ==
    /\ \A i, j \in SavedScans :
          scans[i].file = scans[j].file
          <=> /\ scans[i].target.domain = scans[j].target.domain
              /\ SecondOf(scans[i].saved_at) = SecondOf(scans[j].saved_at)
    /\ \A i \in SavedScans :
          /\ scans[i].file \in DOMAIN reports
          /\ LET last == reports[scans[i].file]
             IN /\ last \in SavedScans
                /\ scans[last].file = scans[i].file
                /\ scans[last].save_nr >= scans[i].save_nr

\* C29 witness: two scans of one domain saved at different ticks of one
\* second: one file, holding the report saved last.
C29_Witness ==
    /\ SavedScans = {1, 2}
    /\ scans[1].saved_at # scans[2].saved_at
    /\ scans[1].file = scans[2].file
    /\ scans[1].save_nr = 2
    /\ reports[scans[1].file] = 1
    /\ Cardinality(DOMAIN reports) = 1

====
